---- MODULE Spec2Model ----
(***************************************************************************)
(* A model of the budget tracker (src/app.py, src/models.py): the data     *)
(* store (accounts, categories, transactions, savings goals), the request  *)
(* handlers that change it, and the derived-metric computations of the     *)
(* dashboard and the reports.                                              *)
(*                                                                         *)
(* Amounts are integers counted in hundredths of the currency unit         *)
(* (500.01 is 50001). Dates are records [year, month, day]. A Python value *)
(* that may be None is a sequence: <<>> for None, <<v>> for the value v.   *)
(* Texts that the code strips are sequences of tokens; " " is a blank.      *)
(***************************************************************************)
EXTENDS Integers, Sequences, FiniteSets, TLC

\* ------------------------------------------------------------ bounds

\* Rows the transactions table may hold.
MaxTx == 2
\* Rows the savings_goals table may hold.
MaxGoals == 1
\* Accounts and categories a run may create beyond the default ones.
MaxNew == 1
\* Midnights that may pass during a run.
MaxTicks == 1
\* Rows the users table may hold.
MaxUsers == 1

\* ------------------------------------------------------------ Python values

None == <<>>
Some(v) == <<v>>
IsNone(o) == o = <<>>
Val(o) == o[1]

Max(a, b) == IF a >= b THEN a ELSE b
Min(a, b) == IF a <= b THEN a ELSE b

\* The sum of f[x] over the finite set S.
RECURSIVE SumOver(_, _)
SumOver(S, f) ==
  IF S = {} THEN 0
  ELSE LET x == CHOOSE y \in S : TRUE IN f[x] + SumOver(S \ {x}, f)

\* str.strip() on a text: leading and trailing blanks removed.
RECURSIVE LStrip(_)
LStrip(s) == IF s # <<>> /\ Head(s) = " " THEN LStrip(Tail(s)) ELSE s
RECURSIVE RStrip(_)
RStrip(s) ==
  IF s # <<>> /\ s[Len(s)] = " " THEN RStrip(SubSeq(s, 1, Len(s) - 1)) ELSE s
Strip(s) == RStrip(LStrip(s))

\* ------------------------------------------------------------ datetime.date

Date(y, m, d) == [year |-> y, month |-> m, day |-> d]

IsLeap(y) == y % 4 = 0 /\ (y % 100 # 0 \/ y % 400 = 0)

DaysInMonth(y, m) ==
  IF m = 2 THEN (IF IsLeap(y) THEN 29 ELSE 28)
  ELSE IF m \in {4, 6, 9, 11} THEN 30 ELSE 31

\* A (year, month, day) triple that datetime accepts.
IsValidDate(y, m, d) == m \in 1..12 /\ d >= 1 /\ d <= DaysInMonth(y, m)

\* The order of date objects.
DateLt(a, b) ==
  \/ a.year < b.year
  \/ a.year = b.year /\ a.month < b.month
  \/ a.year = b.year /\ a.month = b.month /\ a.day < b.day
DateLe(a, b) == a = b \/ DateLt(a, b)

DaysBeforeYear(y) ==
  LET p == y - 1 IN p * 365 + (p \div 4) - (p \div 100) + (p \div 400)

RECURSIVE DaysBeforeMonth(_, _)
DaysBeforeMonth(y, m) ==
  IF m = 1 THEN 0 ELSE DaysBeforeMonth(y, m - 1) + DaysInMonth(y, m - 1)

\* date.toordinal()
ToOrdinal(dt) == DaysBeforeYear(dt.year) + DaysBeforeMonth(dt.year, dt.month) + dt.day

\* The years the model's dates fall in.
Years == 2023..2025

\* date.fromordinal(n), for an ordinal within Years.
FromOrdinal(n) ==
  LET y == CHOOSE yy \in Years : DaysBeforeYear(yy) < n /\ n <= DaysBeforeYear(yy + 1)
      r == n - DaysBeforeYear(y)
      m == CHOOSE mm \in 1..12 :
             DaysBeforeMonth(y, mm) < r /\ r <= DaysBeforeMonth(y, mm) + DaysInMonth(y, mm)
  IN Date(y, m, r - DaysBeforeMonth(y, m))

\* date + timedelta(days=n)
AddDays(dt, n) == FromOrdinal(ToOrdinal(dt) + n)

\* (a - b).days
DaysBetween(a, b) == ToOrdinal(a) - ToOrdinal(b)

\* date.replace(day=1)
ReplaceDay1(dt) == Date(dt.year, dt.month, 1)

\* date + relativedelta(months=n), n of either sign: the month moves by n and
\* the day is cut to the last day of the month reached.
AddMonths(dt, n) ==
  LET t == dt.year * 12 + (dt.month - 1) + n
      y == t \div 12
      m == (t % 12) + 1
  IN Date(y, m, Min(dt.day, DaysInMonth(y, m)))

\* relativedelta(dt1, dt2) for dt1 >= dt2: the whole months from dt2 to dt1,
\* taken back one month at a time while dt2 + months overshoots dt1, and the
\* days left over.
RECURSIVE MonthsBack(_, _, _)
MonthsBack(dt1, dt2, months) ==
  IF DateLt(dt1, AddMonths(dt2, months)) THEN MonthsBack(dt1, dt2, months - 1)
  ELSE months
RelativeDelta(dt1, dt2) ==
  LET months == MonthsBack(dt1, dt2,
                  (dt1.year - dt2.year) * 12 + (dt1.month - dt2.month))
      dtm == AddMonths(dt2, months)
  IN [years |-> months \div 12, months |-> months % 12,
      days |-> DaysBetween(dt1, dtm)]

\* strftime("%m.%Y"): the two-digit month and the year.
MonthLabel(dt) == <<dt.month, dt.year>>

\* ------------------------------------------------------------ the program's constants

DEFAULT_CURRENCY == "TRY"
CURRENCY_SYMBOLS == {"TRY", "USD", "EUR"}
\* The thresholds of GOAL_MILESTONES, in the list's order.
GOAL_MILESTONES == <<25, 50, 75, 100>>

\* str.upper() on the currency codes a form may carry.
Upper(s) ==
  CASE s = "try" -> "TRY"
    [] s = "usd" -> "USD"
    [] s = "eur" -> "EUR"
    [] OTHER -> s

\* ------------------------------------------------------------ state

VARIABLES
  today,          \* what date.today() returns
  ticks,          \* midnights passed so far
  users,          \* the users table: id -> [email, password_hash]
  session,        \* session["user_id"]: None or Some(id)
  accounts,       \* the accounts table: id -> [name, currency]
  categories,     \* the categories table: id -> [name, color, monthly_limit]
  transactions,   \* the transactions table:
                  \*   id -> [date, category_id, account_id, type, amount, emotion]
  goals,          \* the savings_goals table:
                  \*   id -> [name, target_amount, start_date, target_date]
  response,       \* the last response: [code, flash], flash naming the message
  pc,             \* where the dashboard handler stands: idle, query, loop, done
  bugun,          \* dashboard(): bugun
  son_otuz_gun,   \* dashboard(): son_otuz_gun
  gunluk_toplamlar, \* dashboard(): gunluk_toplamlar, keyed by date
  trend_verisi,   \* dashboard(): trend_verisi, a sequence of [tarih, tutar]
  tarih           \* dashboard(): tarih, the loop's date

db == <<accounts, categories, transactions, goals>>
auth == <<users, session>>
clock == <<today, ticks>>
dash == <<pc, bugun, son_otuz_gun, gunluk_toplamlar, trend_verisi, tarih>>
vars == <<today, ticks, users, session, accounts, categories, transactions, goals,
          response, pc, bugun, son_otuz_gun, gunluk_toplamlar, trend_verisi, tarih>>

\* ------------------------------------------------------------ the data store

\* The id SQLite gives a new row of an INTEGER PRIMARY KEY table: one more
\* than the largest id in the table, 1 for an empty table.
NewId(table) ==
  IF DOMAIN table = {} THEN 1
  ELSE (CHOOSE i \in DOMAIN table : \A j \in DOMAIN table : j <= i) + 1

Insert(table, row) == [i \in DOMAIN table \cup {NewId(table)} |->
                         IF i \in DOMAIN table THEN table[i] ELSE row]
Delete(table, ids) == [i \in DOMAIN table \ ids |-> table[i]]

\* The unique constraint on a name column: no other row holds the name.
NameTaken(table, name, self) ==
  \E i \in DOMAIN table : i # self /\ table[i].name = name

\* The rows initialize_database() adds to empty accounts and categories tables.
DefaultAccounts ==
  <<[name |-> <<"Nakit">>, currency |-> DEFAULT_CURRENCY],
    [name |-> <<"Banka">>, currency |-> DEFAULT_CURRENCY],
    [name |-> <<"Kredi", " ", "Karti">>, currency |-> DEFAULT_CURRENCY]>>
DefaultCategories ==
  <<[name |-> <<"Maas">>, color |-> <<"success">>, monthly_limit |-> None],
    [name |-> <<"Market">>, color |-> <<"warning">>, monthly_limit |-> None],
    [name |-> <<"Faturalar">>, color |-> <<"danger">>, monthly_limit |-> None],
    [name |-> <<"Diger">>, color |-> <<"secondary">>, monthly_limit |-> None]>>

\* A relationship without the delete cascade: deleting the owner takes no
\* transaction with it.
AccountTransactionsOrphaned(txs, account_id) == {}

\* Account.transactions / Category.transactions: the rows whose foreign key
\* is the owner's id.
AccountTransactions(txs, account_id) ==
  {i \in DOMAIN txs : txs[i].account_id = account_id}
CategoryTransactions(txs, category_id) ==
  {i \in DOMAIN txs : txs[i].category_id = category_id}

\* sum(t.amount for t in rows if t.type == tur)
SumAmounts(txs, rows, tur) ==
  SumOver({i \in rows : txs[i].type = tur}, [i \in DOMAIN txs |-> txs[i].amount])

\* Transaction.signed_amount()
SignedAmount(t) == IF t.type = "gelir" THEN t.amount ELSE 0 - t.amount

\* A balance that nets the signed amounts of the account's rows: every row
\* that is not an income counts as an expense.
BalanceSigned(txs, account_id) ==
  SumOver(AccountTransactions(txs, account_id),
          [i \in DOMAIN txs |-> SignedAmount(txs[i])])

\* Account.balance()
Balance(txs, account_id) ==
  LET own == AccountTransactions(txs, account_id)
      gelirler == SumAmounts(txs, own, "gelir")
      giderler == SumAmounts(txs, own, "gider")
  IN gelirler - giderler

\* dashboard(): net_bakiye = gelirler - giderler over the whole table.
NetBakiye(txs) ==
  LET gelirler == SumAmounts(txs, DOMAIN txs, "gelir")
      giderler == SumAmounts(txs, DOMAIN txs, "gider")
  IN gelirler - giderler

\* inject_common_data(): toplam_bakiye = sum(a.balance() for a in accounts)
ToplamBakiye(accs, txs) ==
  SumOver(DOMAIN accs, [a \in DOMAIN accs |-> Balance(txs, a)])

\* _parse_date(): None for a missing or empty value and for a text neither
\* format reads as a calendar date.
ParseDate(value) ==
  IF IsNone(value) THEN None
  ELSE LET s == Val(value) IN
       IF s.fmt \in {"iso", "tr"} /\ IsValidDate(s.y, s.m, s.d)
       THEN Some(Date(s.y, s.m, s.d))
       ELSE None

\* request.form.get(key, default) for a text field.
FormGet(field, default) == IF IsNone(field) THEN default ELSE Val(field)

\* A truthy number: neither None nor zero.
Truthy(o) == ~IsNone(o) /\ Val(o) # 0

Respond(code, flash) == [code |-> code, flash |-> flash]

\* werkzeug's generate_password_hash() and check_password_hash(): the hash
\* is not the password, and the check passes for the hashed password alone.
GeneratePasswordHash(password) == [pbkdf2 |-> password]
CheckPasswordHash(pwhash, password) == pwhash.pbkdf2 = password

\* str.lower() on the e-mail addresses a form may carry.
Lower(s) == [k \in DOMAIN s |-> IF s[k] = "A@X" THEN "a@x" ELSE s[k]]

\* A session that counts as logged in whoever sends the request.
LoggedInAnyone == TRUE

\* login_required(): g.user is the session's user when that user exists.
LoggedIn == ~IsNone(session) /\ Val(session) \in DOMAIN users
LoginRedirect ==
  /\ response' = Respond(302, "giris_yapin")
  /\ UNCHANGED <<db, auth, clock, dash>>

\* ------------------------------------------------------------ request handlers
\* Every handler but the dashboard runs from start to end while no other
\* request does (pc = "idle"): one synchronous request at a time. A handler
\* that returns before db.session.commit(), or whose commit the database
\* refuses, leaves the tables as they were.

\* POST /register. The table takes rows up to the id MaxUsers.
Register(form) ==
  /\ pc = "idle"
  /\ IF LoggedIn
     THEN /\ response' = Respond(302, "")
          /\ UNCHANGED <<db, auth, clock, dash>>
     ELSE
       LET email == Lower(Strip(FormGet(form.email, <<>>)))
           password == FormGet(form.password, "")
           confirm_password == FormGet(form.confirm_password, "")
       IN
       /\ IF email = <<>> \/ password = ""
          THEN /\ response' = Respond(200, "eposta_sifre_zorunlu")
               /\ UNCHANGED users
          ELSE IF password # confirm_password
          THEN /\ response' = Respond(200, "sifreler_eslesmiyor")
               /\ UNCHANGED users
          ELSE IF \E u \in DOMAIN users : users[u].email = email
          THEN /\ response' = Respond(200, "eposta_mevcut")
               /\ UNCHANGED users
          ELSE /\ NewId(users) <= MaxUsers
               /\ users' = Insert(users,
                    [email |-> email, password_hash |-> GeneratePasswordHash(password)])
               /\ response' = Respond(302, "kayit_tamamlandi")
       /\ UNCHANGED <<db, session, clock, dash>>

\* POST /login
Login(form) ==
  /\ pc = "idle"
  /\ IF LoggedIn
     THEN /\ response' = Respond(302, "")
          /\ UNCHANGED <<db, auth, clock, dash>>
     ELSE
       LET email == Lower(Strip(FormGet(form.email, <<>>)))
           password == FormGet(form.password, "")
           found == {u \in DOMAIN users : users[u].email = email}
       IN
       /\ IF \E u \in found : CheckPasswordHash(users[u].password_hash, password)
          THEN /\ session' = Some(CHOOSE u \in found : TRUE)
               /\ response' = Respond(302, "giris_basarili")
          ELSE /\ response' = Respond(200, "gecersiz_giris")
               /\ UNCHANGED session
       /\ UNCHANGED <<db, users, clock, dash>>

\* GET /logout
Logout ==
  /\ pc = "idle"
  /\ session' = None
  /\ response' = Respond(302, "oturum_sonlandi")
  /\ UNCHANGED <<db, users, clock, dash>>

\* GET /accounts, /categories, /transactions and /reports: the page is
\* rendered from the tables, which it leaves alone.
ViewPage(page) ==
  /\ pc = "idle"
  /\ IF ~LoggedIn THEN LoginRedirect
     ELSE /\ response' = Respond(200, page)
          /\ UNCHANGED <<db, auth, clock, dash>>

\* POST /accounts. The table takes rows up to the id Len(DefaultAccounts) + MaxNew.
CreateAccount(form) ==
  /\ pc = "idle"
  /\ IF ~LoggedIn THEN LoginRedirect
     ELSE
       LET name == Strip(FormGet(form.name, <<>>))
           given == Upper(FormGet(form.currency, DEFAULT_CURRENCY))
           currency == IF given \notin CURRENCY_SYMBOLS THEN DEFAULT_CURRENCY ELSE given
       IN
       /\ IF name = <<>>
          THEN /\ response' = Respond(302, "hesap_adi_zorunlu")
               /\ UNCHANGED accounts
          ELSE IF NameTaken(accounts, name, 0)
          THEN /\ response' = Respond(500, "IntegrityError")
               /\ UNCHANGED accounts
          ELSE /\ NewId(accounts) <= Len(DefaultAccounts) + MaxNew
               /\ accounts' = Insert(accounts, [name |-> name, currency |-> currency])
               /\ response' = Respond(302, "hesap_eklendi")
       /\ UNCHANGED <<categories, transactions, goals, auth, clock, dash>>

\* POST /accounts/<account_id>/update
UpdateAccount(account_id, form) ==
  /\ pc = "idle"
  /\ IF ~LoggedIn THEN LoginRedirect
     ELSE IF account_id \notin DOMAIN accounts
     THEN /\ response' = Respond(404, "")
          /\ UNCHANGED <<db, auth, clock, dash>>
     ELSE
       LET hesap == accounts[account_id]
           name == Strip(FormGet(form.name, hesap.name))
           given == Upper(FormGet(form.currency, hesap.currency))
           currency == IF given \notin CURRENCY_SYMBOLS THEN DEFAULT_CURRENCY ELSE given
       IN
       /\ IF NameTaken(accounts, name, account_id)
          THEN /\ response' = Respond(500, "IntegrityError")
               /\ UNCHANGED accounts
          ELSE /\ accounts' = [accounts EXCEPT ![account_id] =
                                 [name |-> name, currency |-> currency]]
               /\ response' = Respond(302, "hesap_guncellendi")
       /\ UNCHANGED <<categories, transactions, goals, auth, clock, dash>>

\* POST /accounts/<account_id>/delete: the account and, by the relationship's
\* cascade, the transactions it owns.
DeleteAccount(account_id) ==
  /\ pc = "idle"
  /\ IF ~LoggedIn THEN LoginRedirect
     ELSE IF account_id \notin DOMAIN accounts
     THEN /\ response' = Respond(404, "")
          /\ UNCHANGED <<db, auth, clock, dash>>
     ELSE /\ accounts' = Delete(accounts, {account_id})
          /\ transactions' =
               Delete(transactions, AccountTransactions(transactions, account_id))
          /\ response' = Respond(302, "hesap_silindi")
          /\ UNCHANGED <<categories, goals, auth, clock, dash>>

\* POST /categories. The table takes rows up to the id
\* Len(DefaultCategories) + MaxNew.
CreateCategory(form) ==
  /\ pc = "idle"
  /\ IF ~LoggedIn THEN LoginRedirect
     ELSE
       LET name == Strip(FormGet(form.name, <<>>))
           stripped == Strip(FormGet(form.color, <<"secondary">>))
           color == IF stripped = <<>> THEN <<"secondary">> ELSE stripped
           limit == form.monthly_limit
       IN
       /\ IF ~IsNone(limit) /\ Val(limit) < 0
          THEN /\ response' = Respond(302, "limit_negatif")
               /\ UNCHANGED categories
          ELSE IF name = <<>>
          THEN /\ response' = Respond(302, "kategori_adi_zorunlu")
               /\ UNCHANGED categories
          ELSE IF NameTaken(categories, name, 0)
          THEN /\ response' = Respond(500, "IntegrityError")
               /\ UNCHANGED categories
          ELSE /\ NewId(categories) <= Len(DefaultCategories) + MaxNew
               /\ categories' = Insert(categories,
                    [name |-> name, color |-> color, monthly_limit |-> limit])
               /\ response' = Respond(302, "kategori_eklendi")
       /\ UNCHANGED <<accounts, transactions, goals, auth, clock, dash>>

\* POST /categories/<category_id>/update
UpdateCategory(category_id, form) ==
  /\ pc = "idle"
  /\ IF ~LoggedIn THEN LoginRedirect
     ELSE IF category_id \notin DOMAIN categories
     THEN /\ response' = Respond(404, "")
          /\ UNCHANGED <<db, auth, clock, dash>>
     ELSE
       LET kategori == categories[category_id]
           name == Strip(FormGet(form.name, kategori.name))
           stripped == Strip(FormGet(form.color, kategori.color))
           color == IF stripped = <<>> THEN kategori.color ELSE stripped
           limit == form.monthly_limit
       IN
       /\ IF ~IsNone(limit) /\ Val(limit) < 0
          THEN /\ response' = Respond(302, "limit_negatif")
               /\ UNCHANGED categories
          ELSE IF NameTaken(categories, name, category_id)
          THEN /\ response' = Respond(500, "IntegrityError")
               /\ UNCHANGED categories
          ELSE /\ categories' = [categories EXCEPT ![category_id] =
                    [name |-> name, color |-> color, monthly_limit |-> limit]]
               /\ response' = Respond(302, "kategori_guncellendi")
       /\ UNCHANGED <<accounts, transactions, goals, auth, clock, dash>>

\* POST /categories/<category_id>/delete: the category and, by the
\* relationship's cascade, the transactions it owns.
DeleteCategory(category_id) ==
  /\ pc = "idle"
  /\ IF ~LoggedIn THEN LoginRedirect
     ELSE IF category_id \notin DOMAIN categories
     THEN /\ response' = Respond(404, "")
          /\ UNCHANGED <<db, auth, clock, dash>>
     ELSE /\ categories' = Delete(categories, {category_id})
          /\ transactions' =
               Delete(transactions, CategoryTransactions(transactions, category_id))
          /\ response' = Respond(302, "kategori_silindi")
          /\ UNCHANGED <<accounts, goals, auth, clock, dash>>

\* duygu or None, after strip()
EmotionOf(field) ==
  LET duygu == Strip(FormGet(field, <<>>)) IN
  IF duygu = <<>> THEN None ELSE Some(duygu)

\* POST /transactions. The table takes rows up to the id MaxTx.
CreateTransaction(form) ==
  /\ pc = "idle"
  /\ IF ~LoggedIn THEN LoginRedirect
     ELSE
       LET parsed == ParseDate(form.date)
           tarih_ == IF IsNone(parsed) THEN today ELSE Val(parsed)
           kategori_id == form.category_id
           hesap_id == form.account_id
           tur == FormGet(form.type, "gider")
           miktar == form.amount
       IN
       /\ IF ~(Truthy(kategori_id) /\ Truthy(hesap_id) /\ Truthy(miktar))
          THEN /\ response' = Respond(302, "alanlar_zorunlu")
               /\ UNCHANGED transactions
          ELSE /\ NewId(transactions) <= MaxTx
               /\ transactions' = Insert(transactions,
                    [date |-> tarih_, category_id |-> Val(kategori_id),
                     account_id |-> Val(hesap_id), type |-> tur,
                     amount |-> Val(miktar), emotion |-> EmotionOf(form.emotion)])
               /\ response' = Respond(302, "islem_eklendi")
       /\ UNCHANGED <<accounts, categories, goals, auth, clock, dash>>

\* POST /transactions/<transaction_id>/update
UpdateTransaction(transaction_id, form) ==
  /\ pc = "idle"
  /\ IF ~LoggedIn THEN LoginRedirect
     ELSE IF transaction_id \notin DOMAIN transactions
     THEN /\ response' = Respond(404, "")
          /\ UNCHANGED <<db, auth, clock, dash>>
     ELSE
       LET islem == transactions[transaction_id]
           parsed == ParseDate(form.date)
       IN
       /\ transactions' = [transactions EXCEPT ![transaction_id] =
            [date |-> IF IsNone(parsed) THEN islem.date ELSE Val(parsed),
             category_id |-> IF Truthy(form.category_id)
                             THEN Val(form.category_id) ELSE islem.category_id,
             account_id |-> IF Truthy(form.account_id)
                            THEN Val(form.account_id) ELSE islem.account_id,
             type |-> FormGet(form.type, islem.type),
             amount |-> IF Truthy(form.amount) THEN Val(form.amount) ELSE islem.amount,
             emotion |-> EmotionOf(form.emotion)]]
       /\ response' = Respond(302, "islem_guncellendi")
       /\ UNCHANGED <<accounts, categories, goals, auth, clock, dash>>

\* POST /transactions/<transaction_id>/delete
DeleteTransaction(transaction_id) ==
  /\ pc = "idle"
  /\ IF ~LoggedIn THEN LoginRedirect
     ELSE IF transaction_id \notin DOMAIN transactions
     THEN /\ response' = Respond(404, "")
          /\ UNCHANGED <<db, auth, clock, dash>>
     ELSE /\ transactions' = Delete(transactions, {transaction_id})
          /\ response' = Respond(302, "islem_silindi")
          /\ UNCHANGED <<accounts, categories, goals, auth, clock, dash>>

\* A POST /savings-goals without the test of the two dates' order.
CreateSavingsGoalAnyOrder(form) ==
  /\ pc = "idle"
  /\ IF ~LoggedIn THEN LoginRedirect
     ELSE
       LET ad == Strip(FormGet(form.name, <<>>))
           hedef_tutar == form.target_amount
           start == ParseDate(form.start_date)
           baslangic_tarihi == IF IsNone(start) THEN today ELSE Val(start)
           hedef_tarihi == ParseDate(form.target_date)
       IN
       /\ IF ad = <<>> \/ ~Truthy(hedef_tutar) \/ Val(hedef_tutar) <= 0
             \/ IsNone(hedef_tarihi)
          THEN /\ response' = Respond(302, "hedef_alanlari_zorunlu")
               /\ UNCHANGED goals
          ELSE /\ NewId(goals) <= MaxGoals
               /\ goals' = Insert(goals,
                    [name |-> ad, target_amount |-> Val(hedef_tutar),
                     start_date |-> baslangic_tarihi,
                     target_date |-> Val(hedef_tarihi)])
               /\ response' = Respond(302, "hedef_kaydedildi")
       /\ UNCHANGED <<accounts, categories, transactions, auth, clock, dash>>

\* POST /savings-goals. The table takes rows up to the id MaxGoals.
CreateSavingsGoal(form) ==
  /\ pc = "idle"
  /\ IF ~LoggedIn THEN LoginRedirect
     ELSE
       LET ad == Strip(FormGet(form.name, <<>>))
           hedef_tutar == form.target_amount
           start == ParseDate(form.start_date)
           baslangic_tarihi == IF IsNone(start) THEN today ELSE Val(start)
           hedef_tarihi == ParseDate(form.target_date)
       IN
       /\ IF ad = <<>> \/ ~Truthy(hedef_tutar) \/ Val(hedef_tutar) <= 0
             \/ IsNone(hedef_tarihi)
          THEN /\ response' = Respond(302, "hedef_alanlari_zorunlu")
               /\ UNCHANGED goals
          ELSE IF DateLt(Val(hedef_tarihi), baslangic_tarihi)
          THEN /\ response' = Respond(302, "hedef_tarihi_once")
               /\ UNCHANGED goals
          ELSE /\ NewId(goals) <= MaxGoals
               /\ goals' = Insert(goals,
                    [name |-> ad, target_amount |-> Val(hedef_tutar),
                     start_date |-> baslangic_tarihi,
                     target_date |-> Val(hedef_tarihi)])
               /\ response' = Respond(302, "hedef_kaydedildi")
       /\ UNCHANGED <<accounts, categories, transactions, auth, clock, dash>>

\* POST /savings-goals/<goal_id>/delete
DeleteSavingsGoal(goal_id) ==
  /\ pc = "idle"
  /\ IF ~LoggedIn THEN LoginRedirect
     ELSE IF goal_id \notin DOMAIN goals
     THEN /\ response' = Respond(404, "")
          /\ UNCHANGED <<db, auth, clock, dash>>
     ELSE /\ goals' = Delete(goals, {goal_id})
          /\ response' = Respond(302, "hedef_silindi")
          /\ UNCHANGED <<accounts, categories, transactions, auth, clock, dash>>

\* Midnight: date.today() moves to the next day.
Tick ==
  /\ ticks < MaxTicks
  /\ today' = AddDays(today, 1)
  /\ ticks' = ticks + 1
  /\ UNCHANGED <<db, auth, response, dash>>

\* ------------------------------------------------------------ derived metrics

\* a / b in exact arithmetic: the fraction num/den. den = 0 stands for the
\* ZeroDivisionError Python raises.
Quotient(a, b) == [num |-> a, den |-> b]

\* db.func.sum(Transaction.amount) over the rows of type tur dated in
\* [from, to), "or 0" for no row.
SumInWindow(txs, tur, from, to) ==
  SumAmounts(txs, {i \in DOMAIN txs : DateLe(from, txs[i].date) /\ DateLt(txs[i].date, to)},
             tur)

\* _kategori_limit_durumlari(): aylik_harcamalar, the month's expense total of
\* each category that has an expense row in [ay_baslangic, sonraki_ay).
AylikHarcamalar(txs, ay_baslangic, sonraki_ay) ==
  LET rows == {i \in DOMAIN txs : /\ txs[i].type = "gider"
                                   /\ DateLe(ay_baslangic, txs[i].date)
                                   /\ DateLt(txs[i].date, sonraki_ay)}
  IN [k \in {txs[i].category_id : i \in rows} |->
        SumOver({i \in rows : txs[i].category_id = k},
                [i \in DOMAIN txs |-> txs[i].amount])]

\* A status that counts a spend equal to the limit as over it.
LimitDurumuAtLeast(limit, aylik_harcama) ==
  IF IsNone(limit)
  THEN [limit |-> limit, aylik_harcama |-> aylik_harcama, kalan_limit |-> None,
        limit_asildi |-> FALSE, kullanilan_oran |-> None]
  ELSE LET asildi == IF Val(limit) > 0 THEN aylik_harcama >= Val(limit)
                     ELSE aylik_harcama > 0
       IN [limit |-> limit, aylik_harcama |-> aylik_harcama,
           kalan_limit |-> Some(Val(limit) - aylik_harcama),
           limit_asildi |-> asildi,
           kullanilan_oran |->
             IF Val(limit) > 0 THEN Some(Quotient(aylik_harcama * 100, Val(limit)))
             ELSE Some(Quotient(IF asildi THEN 100 ELSE 0, 1))]

\* A status that treats the limit 0 like any other limit.
LimitDurumuNoZeroCase(limit, aylik_harcama) ==
  IF IsNone(limit)
  THEN [limit |-> limit, aylik_harcama |-> aylik_harcama, kalan_limit |-> None,
        limit_asildi |-> FALSE, kullanilan_oran |-> None]
  ELSE [limit |-> limit, aylik_harcama |-> aylik_harcama,
        kalan_limit |-> Some(Val(limit) - aylik_harcama),
        limit_asildi |-> aylik_harcama > Val(limit),
        kullanilan_oran |-> Some(Quotient(aylik_harcama * 100, Val(limit)))]

\* _kategori_limit_durumlari(): the loop body, one category's status.
LimitDurumu(limit, aylik_harcama) ==
  IF IsNone(limit)
  THEN [limit |-> limit, aylik_harcama |-> aylik_harcama, kalan_limit |-> None,
        limit_asildi |-> FALSE, kullanilan_oran |-> None]
  ELSE LET asildi == IF Val(limit) > 0 THEN aylik_harcama > Val(limit)
                     ELSE aylik_harcama > 0
       IN [limit |-> limit, aylik_harcama |-> aylik_harcama,
           kalan_limit |-> Some(Val(limit) - aylik_harcama),
           limit_asildi |-> asildi,
           kullanilan_oran |->
             IF Val(limit) > 0 THEN Some(Quotient(aylik_harcama * 100, Val(limit)))
             ELSE Some(Quotient(IF asildi THEN 100 ELSE 0, 1))]

\* _kategori_limit_durumlari(): the status of every category, by category id
\* (the code lists them by name).
KategoriLimitDurumlari(cats, txs, now) ==
  LET ay_baslangic == ReplaceDay1(now)
      sonraki_ay == AddMonths(ay_baslangic, 1)
      aylik_harcamalar == AylikHarcamalar(txs, ay_baslangic, sonraki_ay)
  IN [k \in DOMAIN cats |->
        LimitDurumu(cats[k].monthly_limit,
                    IF k \in DOMAIN aylik_harcamalar THEN aylik_harcamalar[k] ELSE 0)]

\* round(x, 2) of an amount held in hundredths.
Round2(x) == x

\* A distribution whose loop runs i = 6, 5, ..., 1: it ends a month early.
AylikGelirGiderDagilimiEarly(txs, now) ==
  LET first == ReplaceDay1(now)
      ay_baslangic(k) == AddMonths(first, 0 - (7 - k))
      sonraki_ay(k) == AddMonths(ay_baslangic(k), 1)
  IN [labels |-> [k \in 1..6 |-> MonthLabel(ay_baslangic(k))],
      gelir |-> [k \in 1..6 |->
                   Round2(SumInWindow(txs, "gelir", ay_baslangic(k), sonraki_ay(k)))],
      gider |-> [k \in 1..6 |->
                   Round2(SumInWindow(txs, "gider", ay_baslangic(k), sonraki_ay(k)))]]

\* _aylik_gelir_gider_dagilimi(): labels, gelir and gider of the six months
\* i = 5, 4, ..., 0 before the month of now.
AylikGelirGiderDagilimi(txs, now) ==
  LET first == ReplaceDay1(now)
      ay_baslangic(k) == AddMonths(first, 0 - (6 - k))
      sonraki_ay(k) == AddMonths(ay_baslangic(k), 1)
  IN [labels |-> [k \in 1..6 |-> MonthLabel(ay_baslangic(k))],
      gelir |-> [k \in 1..6 |->
                   Round2(SumInWindow(txs, "gelir", ay_baslangic(k), sonraki_ay(k)))],
      gider |-> [k \in 1..6 |->
                   Round2(SumInWindow(txs, "gider", ay_baslangic(k), sonraki_ay(k)))]]

\* dashboard(): duygu_ozeti for the month that starts on ay_baslangic, by
\* emotion; the page lists the groups by toplam, largest first.
DuyguOzeti(txs, ay_baslangic) ==
  LET rows == {i \in DOMAIN txs :
                 /\ txs[i].type = "gider"
                 /\ DateLe(ay_baslangic, txs[i].date)
                 /\ ~IsNone(txs[i].emotion)
                 /\ Val(txs[i].emotion) # <<>>}
  IN [emotion \in {Val(txs[i].emotion) : i \in rows} |->
        LET own == {i \in rows : Val(txs[i].emotion) = emotion}
            adet == Cardinality(own)
            toplam == SumOver(own, [i \in DOMAIN txs |-> txs[i].amount])
        IN [adet |-> adet,
            toplam |-> toplam,
            ortalama |-> IF adet # 0 THEN Quotient(toplam, adet) ELSE Quotient(0, 1)]]

\* ------------------------------------------------------------ savings plans

\* A count of months that adds one for a month begun and not ended only:
\* nothing is added when no day is left over.
AySayisiBegunOnly(baslangic, bitis) ==
  IF DateLt(bitis, baslangic) THEN 0
  ELSE LET delta == RelativeDelta(bitis, baslangic)
           ay_farki == delta.years * 12 + delta.months
       IN Max(IF delta.days > 0 THEN ay_farki + 1 ELSE ay_farki, 1)

\* _ay_sayisi()
AySayisi(baslangic, bitis) ==
  IF DateLt(bitis, baslangic) THEN 0
  ELSE LET delta == RelativeDelta(bitis, baslangic)
           ay_farki == delta.years * 12 + delta.months
       IN Max(IF delta.days >= 0 THEN ay_farki + 1 ELSE ay_farki, 1)

\* A plan length that counts only the whole months between the two dates.
PlanSuresiWholeMonths(baslangic, hedef_tarihi) ==
  LET delta == RelativeDelta(hedef_tarihi, baslangic)
  IN delta.years * 12 + delta.months

\* plan_suresi
PlanSuresi(baslangic, hedef_tarihi) == Max(AySayisi(baslangic, hedef_tarihi), 1)

\* A sum of the rows of type tur dated from the day from on, with no last day.
SumBetweenOpenEnd(txs, tur, from, to) ==
  SumAmounts(txs, {i \in DOMAIN txs : DateLe(from, txs[i].date)}, tur)

\* The sum of the rows of type tur dated in [from, to], both ends included.
SumBetween(txs, tur, from, to) ==
  SumAmounts(txs, {i \in DOMAIN txs : DateLe(from, txs[i].date) /\ DateLe(txs[i].date, to)},
             tur)

\* ilerleme: max(0.0, min(100.0, (net_birikim / target_amount) * 100)) as a
\* fraction over target_amount, 0 when target_amount is not positive.
Ilerleme(net_birikim, target_amount) ==
  IF target_amount > 0
  THEN Quotient(Max(0, Min(100 * target_amount, net_birikim * 100)), target_amount)
  ELSE Quotient(0, 1)

\* ilerleme >= threshold
Reached(ilerleme, threshold) == ilerleme.num >= threshold * ilerleme.den

\* Milestones unlocked only while the progress stands in their own quarter:
\* the highest threshold reached and none below it.
KilitlerOwnQuarter(ilerleme) ==
  SelectSeq(GOAL_MILESTONES,
            LAMBDA threshold : /\ Reached(ilerleme, threshold)
                               /\ ~Reached(ilerleme, threshold + 25))

\* Milestones unlocked only once the progress is above their threshold.
KilitlerAbove(ilerleme) ==
  SelectSeq(GOAL_MILESTONES,
            LAMBDA threshold : ilerleme.num > threshold * ilerleme.den)

\* kilitler: the milestones of GOAL_MILESTONES the progress has reached, in
\* the list's order.
Kilitler(ilerleme) ==
  SelectSeq(GOAL_MILESTONES, LAMBDA threshold : Reached(ilerleme, threshold))

\* _tasarruf_planlarini_hazirla(): one goal's plan.
TasarrufPlani(hedef, txs, now) ==
  LET baslangic == hedef.start_date
      hedef_tarihi == hedef.target_date
      plan_suresi == PlanSuresi(baslangic, hedef_tarihi)
      takip_bitis == IF DateLe(hedef_tarihi, now) THEN hedef_tarihi ELSE now
      gelir_toplam == SumBetween(txs, "gelir", baslangic, takip_bitis)
      gider_toplam == SumBetween(txs, "gider", baslangic, takip_bitis)
      net_birikim == gelir_toplam - gider_toplam
      ilerleme == Ilerleme(net_birikim, hedef.target_amount)
      gecen_ay_sayisi == IF DateLe(baslangic, now)
                         THEN AySayisi(baslangic, takip_bitis) ELSE 0
  IN [name |-> hedef.name,
      target_amount |-> hedef.target_amount,
      start_date |-> baslangic,
      target_date |-> hedef_tarihi,
      net_savings |-> net_birikim,
      remaining_amount |-> Max(0, hedef.target_amount - net_birikim),
      remaining_days |-> Max(DaysBetween(hedef_tarihi, now), 0),
      progress |-> ilerleme,
      recommended_monthly |->
        IF plan_suresi # 0 THEN Quotient(hedef.target_amount, plan_suresi)
        ELSE Quotient(hedef.target_amount, 1),
      actual_monthly |->
        IF gecen_ay_sayisi # 0 THEN Quotient(net_birikim, gecen_ay_sayisi)
        ELSE Quotient(0, 1),
      is_completed |-> Reached(ilerleme, 100),
      unlocked_milestones |-> Kilitler(ilerleme),
      total_months |-> plan_suresi,
      elapsed_months |-> gecen_ay_sayisi]

\* _tasarruf_planlarini_hazirla(): planlar, by goal id (the code lists them by
\* target date).
TasarrufPlanlari(gs, txs, now) ==
  [g \in DOMAIN gs |-> TasarrufPlani(gs[g], txs, now)]

\* ------------------------------------------------------------ the dashboard
\* GET / reads date.today() at line 303, at line 305 and at every test of its
\* loop (line 317); midnight may pass between two reads, so the handler is a
\* sequence of steps.

\* strftime("%d.%m.%Y")
DayLabel(dt) == <<dt.day, dt.month, dt.year>>

\* Lines 303-304: bugun.
DashboardStart ==
  /\ pc = "idle"
  /\ IF ~LoggedIn THEN LoginRedirect
     ELSE /\ bugun' = Some(today)
          /\ pc' = "query"
          /\ UNCHANGED <<db, auth, clock, response, son_otuz_gun, gunluk_toplamlar,
                         trend_verisi, tarih>>

\* Lines 305-316: son_otuz_gun, the query and gunluk_toplamlar.
DashboardQuery ==
  /\ pc = "query"
  /\ LET from == AddDays(today, 0 - 29)
         rows == {i \in DOMAIN transactions : DateLe(from, transactions[i].date)}
     IN /\ son_otuz_gun' = Some(from)
        /\ gunluk_toplamlar' =
             [d \in {transactions[i].date : i \in rows} |->
                SumOver({i \in rows : transactions[i].date = d},
                        [i \in DOMAIN transactions |-> SignedAmount(transactions[i])])]
        /\ trend_verisi' = <<>>
        /\ tarih' = Some(from)
  /\ pc' = "loop"
  /\ UNCHANGED <<db, auth, clock, response, bugun>>

\* Lines 317-324: one test of the loop, and its body when the test passes.
\* When it fails the rest of the handler reads the tables and renders the
\* page, on the day date; the handler's variables end with the request.
DashboardLoop ==
  /\ pc = "loop"
  /\ IF DateLe(Val(tarih), today)
     THEN /\ trend_verisi' = Append(trend_verisi,
               [tarih |-> DayLabel(Val(tarih)),
                tutar |-> IF Val(tarih) \in DOMAIN gunluk_toplamlar
                          THEN gunluk_toplamlar[Val(tarih)] ELSE 0])
          /\ tarih' = Some(AddDays(Val(tarih), 1))
          /\ UNCHANGED <<pc, response, bugun, son_otuz_gun, gunluk_toplamlar>>
     ELSE /\ pc' = "idle"
          /\ response' = [code |-> 200, flash |-> "dashboard", date |-> today,
                          trend_verisi |-> trend_verisi]
          /\ bugun' = None
          /\ son_otuz_gun' = None
          /\ gunluk_toplamlar' = <<>>
          /\ trend_verisi' = <<>>
          /\ tarih' = None
  /\ UNCHANGED <<db, auth, clock>>

\* ------------------------------------------------------------ initial states

\* The store of a fresh database after create_app(), on the day now, with a
\* registered user logged in.
InitStore(now) ==
  /\ today = now
  /\ ticks = 0
  /\ users = <<[email |-> <<"a@x">>, password_hash |-> GeneratePasswordHash("pw")]>>
  /\ session = Some(1)
  /\ accounts = DefaultAccounts
  /\ categories = DefaultCategories
  /\ transactions = <<>>
  /\ goals = <<>>
  /\ response = Respond(302, "giris_basarili")
  /\ pc = "idle"
  /\ bugun = None
  /\ son_otuz_gun = None
  /\ gunluk_toplamlar = <<>>
  /\ trend_verisi = <<>>
  /\ tarih = None

\* A form field: missing, or one of the values.
Field(values) == {None} \cup {Some(v) : v \in values}

\* The text of a date field in the format %Y-%m-%d.
Iso(dt) == [fmt |-> "iso", y |-> dt.year, m |-> dt.month, d |-> dt.day]
\* The text of a date field in the format %d.%m.%Y.
Tr(dt) == [fmt |-> "tr", y |-> dt.year, m |-> dt.month, d |-> dt.day]

\* A transaction form with every field missing.
NoTxForm == [date |-> None, category_id |-> None, account_id |-> None,
             type |-> None, amount |-> None, emotion |-> None]

\* ------------------------------------------------------------ Spec: the ledger
\* Accounts, categories and transactions under create, update and delete
\* requests. Requests name the accounts 1 and 4 and the categories 1 and 5:
\* a default row and the first row a request can add. Transactions name the
\* category 1.

LedgerAccountIds == {1, 4}
LedgerCategoryIds == {1, 5}
LedgerAccountForms ==
  {[name |-> n, currency |-> None] : n \in Field({<<"Ek">>})}
LedgerCategoryForms ==
  {[name |-> n, color |-> None, monthly_limit |-> None] : n \in Field({<<"Ek">>})}
LedgerAmounts == {0 - 5, 10}
\* The forms of POST /transactions: complete ones, and ones without a
\* category, without an account, without an amount and with the amount 0.
LedgerCreateForms ==
  {[NoTxForm EXCEPT !.category_id = Some(c), !.account_id = Some(a),
                    !.type = t, !.amount = Some(m)] :
     c \in {1}, a \in LedgerAccountIds, t \in Field({"gelir"}), m \in LedgerAmounts}
  \cup {[NoTxForm EXCEPT !.account_id = Some(1), !.amount = Some(10)],
        [NoTxForm EXCEPT !.category_id = Some(1), !.amount = Some(10)],
        [NoTxForm EXCEPT !.category_id = Some(1), !.account_id = Some(1)],
        [NoTxForm EXCEPT !.category_id = Some(1), !.account_id = Some(1),
                         !.amount = Some(0)]}
\* The forms of POST /transactions/<id>/update: one field given in each.
LedgerUpdateForms ==
  {[NoTxForm EXCEPT !.account_id = Some(a)] : a \in LedgerAccountIds}
  \cup {[NoTxForm EXCEPT !.type = Some(t)] : t \in {"gelir", "gider", "transfer"}}
  \cup {[NoTxForm EXCEPT !.amount = Some(m)] : m \in LedgerAmounts \cup {0}}

LedgerToday == Date(2024, 6, 30)

Init == InitStore(LedgerToday)

Next ==
  \/ \E f \in LedgerAccountForms : CreateAccount(f)
  \/ \E a \in LedgerAccountIds, f \in LedgerAccountForms : UpdateAccount(a, f)
  \/ \E a \in LedgerAccountIds : DeleteAccount(a)
  \/ \E f \in LedgerCategoryForms : CreateCategory(f)
  \/ \E c \in LedgerCategoryIds, f \in LedgerCategoryForms : UpdateCategory(c, f)
  \/ \E c \in LedgerCategoryIds : DeleteCategory(c)
  \/ \E f \in LedgerCreateForms : CreateTransaction(f)
  \/ \E t \in 1..MaxTx, f \in LedgerUpdateForms : UpdateTransaction(t, f)
  \/ \E t \in 1..MaxTx : DeleteTransaction(t)

Spec == Init /\ [][Next]_vars

\* ------------------------------------------------- properties under Spec

\* C1: for every existing account, Account.balance() is the sum of the
\* amounts of the income rows whose account_id is the account minus the sum of
\* the amounts of the expense rows whose account_id is the account.
C1_BalanceIsIncomeMinusExpense ==
  \A a \in DOMAIN accounts :
    LET income == {i \in DOMAIN transactions :
                     transactions[i].account_id = a /\ transactions[i].type = "gelir"}
        expense == {i \in DOMAIN transactions :
                      transactions[i].account_id = a /\ transactions[i].type = "gider"}
        amount == [i \in DOMAIN transactions |-> transactions[i].amount]
    IN Balance(transactions, a) = SumOver(income, amount) - SumOver(expense, amount)

\* An account that owns an income of 10 and an expense of 10 while the other
\* requests have deleted an account and added one.
C1_Witness ==
  \E a \in DOMAIN accounts, i, j \in DOMAIN transactions :
    /\ transactions[i].account_id = a /\ transactions[i].type = "gelir"
    /\ transactions[j].account_id = a /\ transactions[j].type = "gider"
    /\ transactions[i].amount = 10 /\ transactions[j].amount = 10
    /\ Balance(transactions, a) = 0
    /\ 4 \in DOMAIN accounts
    /\ 1 \notin DOMAIN accounts

\* C10: every stored transaction has amount > 0.
C10_AmountsPositive ==
  \A i \in DOMAIN transactions : transactions[i].amount > 0

\* C11: every stored transaction has the type gelir or gider, and no request
\* changes the type of a transaction that exists before and after it.
C11_TypeFixedAtCreation ==
  /\ [](\A i \in DOMAIN transactions : transactions[i].type \in {"gelir", "gider"})
  /\ [][\A i \in DOMAIN transactions \cap DOMAIN transactions' :
          transactions'[i].type = transactions[i].type]_vars

\* The messages of the requests a handler refuses for their values.
ValidationFlashes ==
  {"hesap_adi_zorunlu", "limit_negatif", "kategori_adi_zorunlu", "alanlar_zorunlu",
   "hedef_alanlari_zorunlu", "hedef_tarihi_once"}

\* C13: a request answered with a validation message leaves the four tables
\* as they were, and a request never adds or changes a transaction whose
\* category_id or account_id names no stored row.
C13_FailedValidationChangesNothing ==
  [][/\ response'.flash \in ValidationFlashes =>
          /\ accounts' = accounts /\ categories' = categories
          /\ transactions' = transactions /\ goals' = goals
     /\ \A i \in DOMAIN transactions' :
          (i \notin DOMAIN transactions \/ transactions'[i] # transactions[i]) =>
            /\ transactions'[i].category_id \in DOMAIN categories
            /\ transactions'[i].account_id \in DOMAIN accounts]_vars

\* C19: the dashboard's net_bakiye is toplam_bakiye, the sum of the balances
\* of the stored accounts.
C19_NetIsSumOfBalances ==
  NetBakiye(transactions) = ToplamBakiye(accounts, transactions)

\* ------------------------------------------------------------ SpecLimit: category limits
\* Limits set on the categories 1 and 2, expenses and incomes of category 1
\* dated on the last day of January and the first of February, and the
\* midnight between the two.

LimitStart == Date(2024, 1, 31)
LimitCategoryIds == {1, 2}
LimitForms ==
  {[name |-> None, color |-> None, monthly_limit |-> l] : l \in Field({0 - 1, 0, 50000})}
LimitTxForms ==
  {[NoTxForm EXCEPT !.date = Some(d), !.category_id = Some(1), !.account_id = Some(1),
                    !.type = t, !.amount = Some(m)] :
     d \in {Iso(LimitStart), Tr(AddDays(LimitStart, 1))},
     t \in Field({"gelir"}), m \in {1, 50000}}

InitLimit == InitStore(LimitStart)

NextLimit ==
  \/ \E c \in LimitCategoryIds, f \in LimitForms : UpdateCategory(c, f)
  \/ \E f \in LimitTxForms : CreateTransaction(f)
  \/ \E t \in 1..MaxTx : DeleteTransaction(t)
  \/ Tick

SpecLimit == InitLimit /\ [][NextLimit]_vars

\* The expense total of category k in the calendar month of today.
MonthExpense(k) ==
  SumOver({i \in DOMAIN transactions :
             /\ transactions[i].type = "gider"
             /\ transactions[i].category_id = k
             /\ transactions[i].date.year = today.year
             /\ transactions[i].date.month = today.month},
          [i \in DOMAIN transactions |-> transactions[i].amount])

AylikStarts == {Date(2024, 1, 31), Date(2024, 6, 30), Date(2024, 12, 31)}
AylikDates == {Date(2023, 8, 15), Date(2024, 1, 31), Date(2024, 2, 1)}
AylikCreateForms ==
  {[NoTxForm EXCEPT !.date = Some(Iso(d)), !.category_id = Some(1),
                    !.account_id = Some(1), !.type = t, !.amount = Some(10)] :
     d \in AylikDates, t \in Field({"gelir"})}
AylikUpdateForms == {[NoTxForm EXCEPT !.date = Some(Tr(d))] : d \in AylikDates}

InitAylik == \E now \in AylikStarts : InitStore(now)

NextAylik ==
  \/ \E f \in AylikCreateForms : CreateTransaction(f)
  \/ \E t \in 1..MaxTx, f \in AylikUpdateForms : UpdateTransaction(t, f)
  \/ \E t \in 1..MaxTx : DeleteTransaction(t)
  \/ Tick

SpecAylik == InitAylik /\ [][NextAylik]_vars

\* The label of the calendar month after the one labelled l.
LabelAfter(l) == IF l[1] = 12 THEN <<1, l[2] + 1>> ELSE <<l[1] + 1, l[2]>>

\* C4: the distribution has exactly 6 labels, 6 income values and 6 expense
\* values; the labels are consecutive calendar months, oldest first, the last
\* the month of today; a month without transactions reports 0 and 0.
C4_SixMonths ==
  LET v == AylikGelirGiderDagilimi(transactions, today) IN
  /\ DOMAIN v.labels = 1..6 /\ DOMAIN v.gelir = 1..6 /\ DOMAIN v.gider = 1..6
  /\ v.labels[6] = <<today.month, today.year>>
  /\ \A k \in 1..5 : v.labels[k + 1] = LabelAfter(v.labels[k])
  /\ \A k \in 1..6 :
       (\A i \in DOMAIN transactions :
          <<transactions[i].date.month, transactions[i].date.year>> # v.labels[k])
       => v.gelir[k] = 0 /\ v.gider[k] = 0

\* The first of January 2025: the six labels run from August 2024, across
\* the new year, and the table holds rows that fall in none of the months.
C4_Witness ==
  /\ today = Date(2025, 1, 1)
  /\ AylikGelirGiderDagilimi(transactions, today).labels[1] = <<8, 2024>>
  /\ DOMAIN transactions # {}

\* ------------------------------------------------------------ SpecTrend: the 30-day trend
\* GET / on the first of March, over incomes and expenses dated the day
\* before the 30 days, on their first day, on their last day and on the day
\* after, with a midnight that may pass at any step.

TrendStart == Date(2024, 3, 1)
TrendDates == {AddDays(TrendStart, 0 - 30), AddDays(TrendStart, 0 - 29),
               TrendStart, AddDays(TrendStart, 1)}
TrendTxForms ==
  {[NoTxForm EXCEPT !.date = Some(Iso(d)), !.category_id = Some(1),
                    !.account_id = Some(1), !.type = t, !.amount = Some(10)] :
     d \in TrendDates, t \in Field({"gelir"})}

InitTrend == InitStore(TrendStart)

NextTrend ==
  \/ \E f \in TrendTxForms : CreateTransaction(f)
  \/ \E t \in 1..MaxTx : DeleteTransaction(t)
  \/ DashboardStart
  \/ DashboardQuery
  \/ DashboardLoop
  \/ Tick

SpecTrend == InitTrend /\ [][NextTrend]_vars

\* The sum of the signed amounts of the transactions dated dt.
DaySigned(dt) ==
  SumOver({i \in DOMAIN transactions : transactions[i].date = dt},
          [i \in DOMAIN transactions |-> SignedAmount(transactions[i])])

\* C5: the trend of a rendered dashboard has exactly 30 entries, one for each
\* day from 29 days before the day of the page to that day, in ascending
\* order, each the sum of the signed amounts of the day's transactions.
C5_ThirtyEntries ==
  (response.code = 200 /\ response.flash = "dashboard") =>
    /\ Len(response.trend_verisi) = 30
    /\ \A k \in 1..30 :
         /\ response.trend_verisi[k].tarih = DayLabel(AddDays(response.date, k - 30))
         /\ response.trend_verisi[k].tutar = DaySigned(AddDays(response.date, k - 30))

\* ------------------------------------------------------------ SpecPlan: savings goals
\* Goals created and deleted on the 30th of June and the day after, with
\* start and target dates on the first and last of January, the last of
\* February and the last of December, in either order and in both formats,
\* with a missing start date, and with forms the handler refuses; an income
\* dated today beside them.

PlanStart == Date(2024, 6, 30)
PlanDates == {Date(2024, 1, 1), Date(2024, 1, 31), Date(2024, 2, 29), Date(2024, 12, 31)}
GoalName == <<"Tatil">>
GoalForm(n, a, s, t) == [name |-> n, target_amount |-> a, start_date |-> s,
                         target_date |-> t]
NotADate == [fmt |-> "other", y |-> 0, m |-> 0, d |-> 0]
PlanGoalForms ==
  {GoalForm(Some(GoalName), Some(120000), s, Some(Tr(t))) :
     s \in Field({Iso(d) : d \in PlanDates}), t \in PlanDates}
  \cup {GoalForm(n, Some(120000), None, Some(Iso(Date(2024, 12, 31)))) :
          n \in {None, Some(<<" ">>)}}
  \cup {GoalForm(Some(GoalName), a, None, Some(Iso(Date(2024, 12, 31)))) :
          a \in Field({0, 0 - 120000})}
  \cup {GoalForm(Some(GoalName), Some(120000), Some(NotADate), t) :
          t \in {None, Some(NotADate), Some(Iso(Date(2024, 2, 30))),
                 Some(Iso(Date(2024, 12, 31)))}}
PlanTxForms ==
  {[NoTxForm EXCEPT !.category_id = Some(1), !.account_id = Some(1),
                    !.type = Some("gelir"), !.amount = Some(60000)]}

InitPlan == InitStore(PlanStart)

NextPlan ==
  \/ \E f \in PlanGoalForms : CreateSavingsGoal(f)
  \/ \E g \in 1..MaxGoals : DeleteSavingsGoal(g)
  \/ \E f \in PlanTxForms : CreateTransaction(f)
  \/ \E t \in 1..MaxTx : DeleteTransaction(t)
  \/ Tick

SpecPlan == InitPlan /\ [][NextPlan]_vars

\* C6: for every stored goal total_months is at least 1 and neither monthly
\* rate divides by zero; a goal whose target date is its start date has
\* total_months 1; actual_monthly is 0 whenever elapsed_months is 0.
C6_MonthsAtLeastOne ==
  \A g \in DOMAIN goals :
    LET plan == TasarrufPlanlari(goals, transactions, today)[g] IN
    /\ plan.total_months >= 1
    /\ plan.recommended_monthly.den = plan.total_months
    /\ plan.actual_monthly.den # 0
    /\ plan.elapsed_months = 0 => plan.actual_monthly.num = 0
    /\ goals[g].target_date = goals[g].start_date => plan.total_months = 1

\* A goal that starts and ends on the last of December, seen on the 30th of
\* June with an income in the table: one month planned, none elapsed.
C6_Witness ==
  \E g \in DOMAIN goals :
    LET plan == TasarrufPlanlari(goals, transactions, today)[g] IN
    /\ goals[g].target_date = goals[g].start_date
    /\ DateLt(today, goals[g].start_date)
    /\ plan.total_months = 1
    /\ plan.elapsed_months = 0
    /\ DOMAIN transactions # {}

\* C9: a POST /savings-goals whose target date is before its start date adds
\* no row and changes none; every stored goal has target_date >= start_date
\* and target_amount > 0.
C9_TargetNotBeforeStart ==
  /\ [](\A g \in DOMAIN goals :
          /\ ~DateLt(goals[g].target_date, goals[g].start_date)
          /\ goals[g].target_amount > 0)
  /\ [][response'.flash = "hedef_tarihi_once" => goals' = goals]_vars

\* The handler has just refused a form for its dates' order while the table
\* holds a goal whose target date is its start date.
C9_Witness ==
  /\ response.flash = "hedef_tarihi_once"
  /\ \E g \in DOMAIN goals : goals[g].target_date = goals[g].start_date

\* The whole calendar months from one date to a later one: the months
\* between the two calendar months, less one when the later date's day has
\* not come to the earlier date's day (or to the end of its own month).
WholeMonths(from, to) ==
  LET between == (to.year - from.year) * 12 + (to.month - from.month)
      due == Min(from.day, DaysInMonth(to.year, to.month))
  IN IF to.day < due THEN between - 1 ELSE between

\* C16: for every stored goal, _ay_sayisi(start_date, target_date) is the
\* whole calendar months from start to target, plus 1 when the days left
\* over are >= 0, and is at least 1; total_months is that number; from
\* 2024-01-01 to 2024-12-31 it is 12.
C16_MonthsRoundedUp ==
  \A g \in DOMAIN goals :
    LET from == goals[g].start_date
        to == goals[g].target_date
        whole == WholeMonths(from, to)
        rest == ToOrdinal(to) - ToOrdinal(AddMonths(from, whole))
        ay == AySayisi(from, to)
    IN /\ ay = whole + (IF rest >= 0 THEN 1 ELSE 0)
       /\ ay >= 1
       /\ TasarrufPlanlari(goals, transactions, today)[g].total_months = ay
       /\ (from = Date(2024, 1, 1) /\ to = Date(2024, 12, 31)) => ay = 12

\* The goal from 2024-01-31 to 2024-02-29 is stored: one whole month with no
\* day left over, counted as 2.
C16_Witness ==
  \E g \in DOMAIN goals :
    /\ goals[g].start_date = Date(2024, 1, 31)
    /\ goals[g].target_date = Date(2024, 2, 29)
    /\ AySayisi(goals[g].start_date, goals[g].target_date) = 2

\* ------------------------------------------------------------ SpecMilestone: progress
\* The goal of 1200.00 from the first of January to the last of December,
\* seen on the 30th of June and the day after, while incomes and expenses of
\* 300.00 and 600.00 dated on those two days come, change and go.

MilestoneGoalForms ==
  {GoalForm(Some(GoalName), Some(120000), Some(Iso(Date(2024, 1, 1))),
            Some(Iso(Date(2024, 12, 31))))}
MilestoneAmounts == {30000, 60000}
MilestoneCreateForms ==
  {[NoTxForm EXCEPT !.date = d, !.category_id = Some(1), !.account_id = Some(1),
                    !.type = t, !.amount = Some(m)] :
     d \in Field({Iso(AddDays(PlanStart, 1))}), t \in Field({"gelir"}),
     m \in MilestoneAmounts}
MilestoneUpdateForms ==
  {[NoTxForm EXCEPT !.amount = Some(m)] : m \in MilestoneAmounts}
  \cup {[NoTxForm EXCEPT !.type = Some(t)] : t \in {"gelir", "gider"}}

InitMilestone == InitStore(PlanStart)

NextMilestone ==
  \/ \E f \in MilestoneGoalForms : CreateSavingsGoal(f)
  \/ \E g \in 1..MaxGoals : DeleteSavingsGoal(g)
  \/ \E f \in MilestoneCreateForms : CreateTransaction(f)
  \/ \E t \in 1..MaxTx, f \in MilestoneUpdateForms : UpdateTransaction(t, f)
  \/ \E t \in 1..MaxTx : DeleteTransaction(t)
  \/ Tick

SpecMilestone == InitMilestone /\ [][NextMilestone]_vars

\* The plans a dashboard request computes in the current state.
Plans == TasarrufPlanlari(goals, transactions, today)

\* The plans a dashboard request computes in the next state.
PlansNext == TasarrufPlanlari(goals', transactions', today')

\* The thresholds in a list of unlocked milestones.
Unlocked(plan) == {plan.unlocked_milestones[k] : k \in DOMAIN plan.unlocked_milestones}

\* C7: from one computation of the plans to the next, for a goal that stays
\* the same on the same day, when net_savings does not fall every milestone
\* unlocked before is unlocked after.
C7_UnlockMonotonic ==
  [][\A g \in DOMAIN goals \cap DOMAIN goals' :
       (/\ goals'[g] = goals[g]
        /\ today' = today
        /\ PlansNext[g].net_savings >= Plans[g].net_savings)
       => Unlocked(Plans[g]) \subseteq Unlocked(PlansNext[g])]_vars

\* The goal has its 25 and 50 milestones unlocked and the table holds two
\* rows: a request can raise or lower net_savings from here.
C7_Witness ==
  \E g \in DOMAIN goals :
    /\ Unlocked(Plans[g]) = {25, 50}
    /\ Cardinality(DOMAIN transactions) = 2

\* C8: the unlocked milestones of a goal are the thresholds of 25, 50, 75 and
\* 100 that are <= its progress, in ascending order; a progress of 100
\* unlocks all four; target_amount 1200 with net_savings 600 is a progress of
\* 50 and unlocks 25 and 50 only.
C8_UnlockedUpToProgress ==
  \A g \in DOMAIN goals :
    LET plan == Plans[g]
        n == Len(plan.unlocked_milestones)
    IN /\ \A t \in {25, 50, 75, 100} :
            t \in Unlocked(plan) <=> t * plan.progress.den <= plan.progress.num
       /\ plan.unlocked_milestones = SubSeq(<<25, 50, 75, 100>>, 1, n)
       /\ plan.progress.num = 100 * plan.progress.den => n = 4
       /\ (plan.target_amount = 120000 /\ plan.net_savings = 60000) =>
            /\ plan.progress.num = 50 * plan.progress.den
            /\ plan.unlocked_milestones = <<25, 50>>
       /\ plan.progress.den > 0

\* The goal of 1200.00 with a net saving of 600.00: progress 50, the 25 and
\* 50 milestones unlocked.
C8_Witness ==
  \E g \in DOMAIN goals :
    /\ Plans[g].target_amount = 120000
    /\ Plans[g].net_savings = 60000
    /\ Plans[g].unlocked_milestones = <<25, 50>>

\* ------------------------------------------------------------ SpecCascade: owners
\* Accounts and categories are added and deleted while incomes of the
\* accounts 1 and 4 and the categories 1 and 5 are added and moved from one
\* owner to another. No request deletes a transaction by itself: a row that
\* goes has gone with its owner.

CascadeCreateForms ==
  {[NoTxForm EXCEPT !.category_id = Some(c), !.account_id = Some(a),
                    !.type = Some("gelir"), !.amount = Some(10)] :
     c \in LedgerCategoryIds, a \in LedgerAccountIds}
CascadeUpdateForms ==
  {[NoTxForm EXCEPT !.account_id = Some(a)] : a \in LedgerAccountIds}
  \cup {[NoTxForm EXCEPT !.category_id = Some(c)] : c \in LedgerCategoryIds}

InitCascade == InitStore(LedgerToday)

NextCascade ==
  \/ \E f \in LedgerAccountForms : CreateAccount(f)
  \/ \E a \in LedgerAccountIds : DeleteAccount(a)
  \/ \E f \in LedgerCategoryForms : CreateCategory(f)
  \/ \E c \in LedgerCategoryIds : DeleteCategory(c)
  \/ \E f \in CascadeCreateForms : CreateTransaction(f)
  \/ \E t \in 1..MaxTx, f \in CascadeUpdateForms : UpdateTransaction(t, f)

SpecCascade == InitCascade /\ [][NextCascade]_vars

\* The rows of a table whose ids are in keep.
Kept(table, keep) == [i \in DOMAIN table \cap keep |-> table[i]]

\* C12: a request that removes an account removes that account alone and
\* the transactions whose account_id it is, and changes no other row; a
\* request that removes a category does the same by category_id; afterwards
\* no transaction names the removed row; and a delete request answered with
\* its success message has removed a row.
C12_DeleteCascadesExactly ==
  [][/\ \A a \in DOMAIN accounts \ DOMAIN accounts' :
          /\ accounts' = Kept(accounts, DOMAIN accounts \ {a})
          /\ categories' = categories
          /\ transactions' =
               Kept(transactions,
                    {i \in DOMAIN transactions : transactions[i].account_id # a})
          /\ \A i \in DOMAIN transactions' : transactions'[i].account_id # a
     /\ \A c \in DOMAIN categories \ DOMAIN categories' :
          /\ categories' = Kept(categories, DOMAIN categories \ {c})
          /\ accounts' = accounts
          /\ transactions' =
               Kept(transactions,
                    {i \in DOMAIN transactions : transactions[i].category_id # c})
          /\ \A i \in DOMAIN transactions' : transactions'[i].category_id # c
     /\ response'.flash = "hesap_silindi" => DOMAIN accounts' # DOMAIN accounts
     /\ response'.flash = "kategori_silindi" => DOMAIN categories' # DOMAIN categories
    ]_vars

\* The account 1 has just been deleted: the transaction 1 has gone with it
\* and the transaction 2, of the account 4 and the category 5, is still
\* there beside the four first categories.
C12_Witness ==
  /\ response.flash = "hesap_silindi"
  /\ 1 \notin DOMAIN accounts
  /\ DOMAIN transactions = {2}
  /\ transactions[2].account_id = 4
  /\ transactions[2].category_id = 5
  /\ DOMAIN categories = 1..4

\* ------------------------------------------------------------ SpecAccounts: account forms
\* POST /accounts and POST /accounts/<id>/update with a name that is missing,
\* blank or new and a currency that is missing, in lower case, known or
\* unknown, on the accounts 1 and 4.

AccountNames == {<<" ">>, <<"Ek">>}
AccountCurrencies == {"usd", "EUR", "GBP"}
AccountForms ==
  {[name |-> n, currency |-> c] : n \in Field(AccountNames), c \in Field(AccountCurrencies)}

InitAccounts == InitStore(LedgerToday)

NextAccounts ==
  \/ \E f \in AccountForms : CreateAccount(f)
  \/ \E a \in LedgerAccountIds, f \in AccountForms : UpdateAccount(a, f)
  \/ \E a \in LedgerAccountIds : DeleteAccount(a)

SpecAccounts == InitAccounts /\ [][NextAccounts]_vars

\* C15: every stored account has a name that is not empty and a currency
\* among TRY, USD and EUR.
C15_AccountNameAndCurrency ==
  \A a \in DOMAIN accounts :
    /\ accounts[a].name # <<>>
    /\ accounts[a].currency \in {"TRY", "USD", "EUR"}

\* ------------------------------------------------------------ SpecAuth: the session
\* A fresh database with no user: a visitor registers, logs in and out, and
\* sends every request of the application before, between and after.

AuthForms ==
  {[email |-> e, password |-> pw, confirm_password |-> c] :
     e \in {None, Some(<<"A@X", " ">>)}, pw \in Field({"pw"}), c \in Field({"pw"})}
AuthAccountForms == {[name |-> Some(<<"Ek">>), currency |-> None]}
AuthCategoryForms == {[name |-> Some(<<"Ek">>), color |-> None, monthly_limit |-> None]}
AuthTxForms ==
  {[NoTxForm EXCEPT !.category_id = Some(1), !.account_id = Some(1),
                    !.type = Some("gelir"), !.amount = Some(10)]}
AuthGoalForms ==
  {GoalForm(Some(GoalName), Some(120000), None, Some(Iso(Date(2024, 12, 31))))}
AuthPages == {"accounts", "categories", "transactions", "reports"}

InitAuth ==
  /\ today = LedgerToday
  /\ ticks = 0
  /\ users = <<>>
  /\ session = None
  /\ accounts = DefaultAccounts
  /\ categories = DefaultCategories
  /\ transactions = <<>>
  /\ goals = <<>>
  /\ response = Respond(200, "")
  /\ pc = "idle"
  /\ bugun = None
  /\ son_otuz_gun = None
  /\ gunluk_toplamlar = <<>>
  /\ trend_verisi = <<>>
  /\ tarih = None

NextAuth ==
  \/ \E f \in AuthForms : Register(f)
  \/ \E f \in AuthForms : Login(f)
  \/ Logout
  \/ DashboardStart
  \/ DashboardQuery
  \/ DashboardLoop
  \/ \E page \in AuthPages : ViewPage(page)
  \/ \E f \in AuthAccountForms : CreateAccount(f)
  \/ \E f \in AuthAccountForms : UpdateAccount(1, f)
  \/ DeleteAccount(2)
  \/ \E f \in AuthCategoryForms : CreateCategory(f)
  \/ \E f \in AuthCategoryForms : UpdateCategory(1, f)
  \/ DeleteCategory(2)
  \/ \E f \in AuthTxForms : CreateTransaction(f)
  \/ \E f \in AuthTxForms : UpdateTransaction(1, f)
  \/ DeleteTransaction(1)
  \/ \E f \in AuthGoalForms : CreateSavingsGoal(f)
  \/ DeleteSavingsGoal(1)

SpecAuth == InitAuth /\ [][NextAuth]_vars

\* The messages of /register, /login and /logout.
AuthFlashes ==
  {"eposta_sifre_zorunlu", "sifreler_eslesmiyor", "eposta_mevcut", "kayit_tamamlandi",
   "giris_basarili", "gecersiz_giris", "oturum_sonlandi"}

\* C14: while the session names no stored user, every request leaves the
\* accounts, categories, transactions and savings goals as they were, starts
\* no dashboard, and is answered by /register, /login or /logout or with the
\* redirect to the login page; and /logout leaves a session that names no user.
C14_LoginRequired ==
  /\ [][(IsNone(session) \/ Val(session) \notin DOMAIN users) =>
          /\ accounts' = accounts /\ categories' = categories
          /\ transactions' = transactions /\ goals' = goals
          /\ pc' = "idle"
          /\ response'.flash \in AuthFlashes \cup {"giris_yapin"}]_vars
  /\ [][response'.flash = "oturum_sonlandi" => IsNone(session')]_vars

\* After a logout, with a transaction and a goal in the tables, a request
\* has been redirected to the login page.
C14_Witness ==
  /\ IsNone(session)
  /\ DOMAIN users # {}
  /\ DOMAIN transactions # {}
  /\ DOMAIN goals # {}
  /\ response = Respond(302, "giris_yapin")

\* ------------------------------------------------------------ SpecDuygu: emotions
\* On the 15th of June, incomes and expenses dated the last of May, the
\* first of June and the first of July, with and without an emotion tag,
\* are added, moved to another day and deleted.

DuyguToday == Date(2024, 6, 15)
DuyguDates == {Date(2024, 5, 31), Date(2024, 6, 1), Date(2024, 7, 1)}
DuyguEmotions == {<<"stres">>, <<" ">>}
DuyguCreateForms ==
  {[NoTxForm EXCEPT !.date = Some(Iso(d)), !.category_id = Some(1),
                    !.account_id = Some(1), !.type = t, !.amount = Some(10),
                    !.emotion = e] :
     d \in DuyguDates, t \in Field({"gelir"}), e \in Field(DuyguEmotions)}
DuyguUpdateForms ==
  {[NoTxForm EXCEPT !.date = Some(Iso(d)), !.emotion = Some(<<"stres">>)] :
     d \in DuyguDates}

InitDuygu == InitStore(DuyguToday)

NextDuygu ==
  \/ \E f \in DuyguCreateForms : CreateTransaction(f)
  \/ \E t \in 1..MaxTx, f \in DuyguUpdateForms : UpdateTransaction(t, f)
  \/ \E t \in 1..MaxTx : DeleteTransaction(t)

SpecDuygu == InitDuygu /\ [][NextDuygu]_vars

\* C17: every group of the emotion summary counts the expenses with its
\* tag dated from the first of the current month up to, and not including,
\* the first of the next month, and no other row: adet is their number,
\* toplam is the sum of their amounts and ortalama is toplam / adet.
C17_EmotionSummaryOfTheMonth ==
  LET ay_baslangic == ReplaceDay1(today)
      sonraki_ay == AddMonths(ay_baslangic, 1)
      ozet == DuyguOzeti(transactions, ay_baslangic)
  IN \A emotion \in DOMAIN ozet :
       LET of_the_month ==
             {i \in DOMAIN transactions :
                /\ transactions[i].type = "gider"
                /\ transactions[i].emotion = Some(emotion)
                /\ ToOrdinal(ay_baslangic) <= ToOrdinal(transactions[i].date)
                /\ ToOrdinal(transactions[i].date) < ToOrdinal(sonraki_ay)}
       IN /\ ozet[emotion].adet = Cardinality(of_the_month)
          /\ ozet[emotion].toplam =
               SumOver(of_the_month, [i \in DOMAIN transactions |-> transactions[i].amount])
          /\ ozet[emotion].ortalama.num = ozet[emotion].toplam
          /\ ozet[emotion].ortalama.den = ozet[emotion].adet

\* ------------------------------------------------------------ SpecWindow: the tracking window
\* On the 30th of June and the day after: a goal for June, or a goal from
\* the first of July to the end of the year, while incomes and expenses of
\* two accounts and categories, dated the last of May, the 30th of June and
\* the first of July, are added, moved to another day and deleted.

WindowGoalForms ==
  {GoalForm(Some(GoalName), Some(120000), Some(Iso(Date(2024, 6, 1))),
            Some(Iso(Date(2024, 6, 30)))),
   GoalForm(Some(GoalName), Some(120000), Some(Iso(Date(2024, 7, 1))),
            Some(Iso(Date(2024, 12, 31))))}
WindowDates == {Date(2024, 5, 31), Date(2024, 6, 30), Date(2024, 7, 1)}
WindowCreateForms ==
  {[NoTxForm EXCEPT !.date = Some(Iso(d)), !.category_id = Some(o),
                    !.account_id = Some(o), !.type = t, !.amount = Some(30000)] :
     d \in WindowDates, o \in {1, 2}, t \in Field({"gelir"})}
WindowUpdateForms ==
  {[NoTxForm EXCEPT !.date = Some(Iso(d))] : d \in WindowDates}

InitWindow == InitStore(PlanStart)

NextWindow ==
  \/ \E f \in WindowGoalForms : CreateSavingsGoal(f)
  \/ \E g \in 1..MaxGoals : DeleteSavingsGoal(g)
  \/ \E f \in WindowCreateForms : CreateTransaction(f)
  \/ \E t \in 1..MaxTx, f \in WindowUpdateForms : UpdateTransaction(t, f)
  \/ \E t \in 1..MaxTx : DeleteTransaction(t)
  \/ Tick

SpecWindow == InitWindow /\ [][NextWindow]_vars

\* A day of the goal's window on the day now: from start_date to the earlier
\* of target_date and now, both included.
InWindow(goal, now, day) ==
  /\ ToOrdinal(goal.start_date) <= ToOrdinal(day)
  /\ ToOrdinal(day) <= Min(ToOrdinal(goal.target_date), ToOrdinal(now))

\* C18: for every goal net_savings is the sum of the incomes minus the sum
\* of the expenses of the whole table dated in the goal's window; before the
\* start date net_savings and elapsed_months are 0; and a request that adds,
\* changes or deletes only rows dated outside the window, before and after,
\* leaves net_savings, progress, remaining_amount and the unlocked
\* milestones of the goal as they were.
C18_NetSavingsOfTheWindow ==
  /\ [](\A g \in DOMAIN goals :
          LET rows == {i \in DOMAIN transactions :
                         InWindow(goals[g], today, transactions[i].date)}
              amount == [i \in DOMAIN transactions |-> transactions[i].amount]
              income == {i \in rows : transactions[i].type = "gelir"}
              expense == {i \in rows : transactions[i].type = "gider"}
          IN /\ Plans[g].net_savings = SumOver(income, amount) - SumOver(expense, amount)
             /\ DateLt(today, goals[g].start_date) =>
                  /\ Plans[g].net_savings = 0
                  /\ Plans[g].elapsed_months = 0)
  /\ [][\A g \in DOMAIN goals \cap DOMAIN goals' :
          (/\ goals'[g] = goals[g]
           /\ today' = today
           /\ \A i \in DOMAIN transactions \ DOMAIN transactions' :
                ~InWindow(goals[g], today, transactions[i].date)
           /\ \A i \in DOMAIN transactions' \ DOMAIN transactions :
                ~InWindow(goals[g], today, transactions'[i].date)
           /\ \A i \in DOMAIN transactions \cap DOMAIN transactions' :
                transactions'[i] # transactions[i] =>
                  /\ ~InWindow(goals[g], today, transactions[i].date)
                  /\ ~InWindow(goals[g], today, transactions'[i].date))
          => /\ PlansNext[g].net_savings = Plans[g].net_savings
             /\ PlansNext[g].progress = Plans[g].progress
             /\ PlansNext[g].remaining_amount = Plans[g].remaining_amount
             /\ PlansNext[g].unlocked_milestones = Plans[g].unlocked_milestones]_vars

\* On the first of July the goal for June has net_savings 300.00 from an
\* income of its last day, with a second row dated after its target date in
\* the table.
C18_Witness ==
  \E g \in DOMAIN goals, i, j \in DOMAIN transactions :
    /\ today = Date(2024, 7, 1)
    /\ goals[g].target_date = Date(2024, 6, 30)
    /\ transactions[i].date = Date(2024, 6, 30)
    /\ transactions[j].date = Date(2024, 7, 1)
    /\ transactions[i].account_id # transactions[j].account_id
    /\ Plans[g].net_savings = 30000
    /\ Plans[g].unlocked_milestones = <<25>>

====
